---- MODULE Spec2Model ----
(***************************************************************************)
(* The terminal operators of go-linq (result.go) as a state machine.      *)
(* One behaviour is one call of one operator on one input: the state      *)
(* holds the operator's arguments, its cursor(s), its locals and the      *)
(* caller's destination container; every action is one pass through the   *)
(* operator's loop, i.e. one next() call together with the loop body.     *)
(***************************************************************************)
EXTENDS Integers, Sequences, FiniteSets

\* ------------------------------------------------------------------ bounds
MaxLen == 3        \* longest source sequence
NumVals == 2       \* distinct element values, keys and map values
MaxCap == 2        \* largest capacity of the slice the caller passes in
MaxMapLen == 2     \* longest source sequence fed to ToMap / ToMapBy
ExtraSliceLen == 2 \* ToSlice sources may be this much longer than MaxLen

\* ---------------------------------------------------------------- elements
Plain == 1..NumVals
Signed == {"int8", "int64"}
Unsigned == {"uint8", "uint64"}
Floats == {"float32", "float64"}
SignedElems == Signed \X ({0 - 1} \cup Plain)
UnsignedElems == Unsigned \X Plain
FloatElems == Floats \X Plain
\* elements of an ordered, non-numeric type: <<rank, identity>>; two elements
\* of the same rank compare equal and are still different elements
OrdElems == Plain \X {"a", "b"}
\* KeyValue{Key, Value}
KeyValue == Plain \X Plain

BSeq(S, n) == UNION {[1..k -> S] : k \in 0..n}

\* interface{} results: nil, or a value
Nil == <<>>
Some(x) == <<x>>

Operators ==
  {"All", "Any", "AnyWith", "Average", "Contains", "Count", "CountWith",
   "First", "FirstWith", "Last", "LastWith", "Max", "Min", "Results",
   "SequenceEqual", "Single", "SingleWith", "SumInts", "SumUInts",
   "SumFloats", "ToChannel", "ToMap", "ToMapBy", "ToSlice"}

WithPredicate == {"All", "AnyWith", "CountWith", "FirstWith", "LastWith", "SingleWith"}
WithPrologue == {"Average", "Max", "Min", "Single", "SumInts", "SumUInts", "SumFloats"}

\* the sequences a Query of each operator may yield
Sources(o) ==
  CASE o = "SumInts" -> BSeq(SignedElems, MaxLen)
    [] o = "SumUInts" -> BSeq(UnsignedElems, MaxLen)
    [] o = "SumFloats" -> BSeq(FloatElems, MaxLen)
    [] o = "Average" -> BSeq(SignedElems, MaxLen) \cup BSeq(UnsignedElems, MaxLen)
                          \cup BSeq(FloatElems, MaxLen)
    [] o \in {"Max", "Min"} -> BSeq(OrdElems, MaxLen)
    [] o \in {"ToMap", "ToMapBy"} -> BSeq(KeyValue, MaxMapLen)
    [] o = "ToSlice" -> BSeq(Plain, MaxLen + ExtraSliceLen)
    [] OTHER -> BSeq(Plain, MaxLen)

\* a slice value: the identity of its backing array, the array (its length is
\* the capacity) and the slice length
Cap(s) == Len(s.arr)
Slices ==
  {[base |-> 0, arr |-> [i \in 1..c |-> 0], len |-> l] : <<l, c>> \in
     {lc \in (0..MaxCap) \X (0..MaxCap) : lc[1] <= lc[2]}}

\* a map value: a function from the keys present to their values
Maps == UNION {[K -> {0}] : K \in SUBSET Plain}

\* a channel whose consumer keeps receiving: what was received, and the closes
Channel == [sent |-> <<>>, closed |-> 0]

Destinations(o) ==
  CASE o = "ToSlice" -> Slices
    [] o \in {"ToMap", "ToMapBy"} -> Maps
    [] o = "ToChannel" -> {Channel}
    [] OTHER -> {Nil}

VARIABLES
  op,            \* the operator called
  pc,            \* "call", "first", "loop", "send", "done"
  q, q2,         \* the elements the Query (and SequenceEqual's q2) will yield
  predicate,     \* the set of elements the predicate accepts
  value,         \* Contains' argument
  keySelector, valueSelector,  \* "Key" or "Value": the field each selector returns
  result,        \* the caller's destination: slice, map or channel
  result0,       \* the destination as it was passed in
  iterated,      \* <<Iterate() calls on q, Iterate() calls on q2>>
  next, next2,   \* the cursors: position, next() calls, ok=false results
  r,             \* the return value
  found, n, index, slice, item, conv

args == <<op, q, q2, predicate, value, keySelector, valueSelector, result0>>
locals == <<found, n, index, slice, item, conv>>
vars == <<args, pc, result, iterated, next, next2, r, locals>>

\* ------------------------------------------------------------ the cursor
NoCursor == [pos |-> 0, calls |-> 0, eos |-> 0]
\* one next() call on cursor c over sequence s
Advance(c, s) ==
  IF c.pos < Len(s)
  THEN [c EXCEPT !.pos = @ + 1, !.calls = @ + 1]
  ELSE [c EXCEPT !.calls = @ + 1, !.eos = @ + 1]

\* what the pending next() call of the operator's cursor returns
Ok == next.pos < Len(q)
Cur == q[next.pos + 1]
Ok2 == next2.pos < Len(q2)
Cur2 == q2[next2.pos + 1]

ZeroResult(o) ==
  IF o \in {"Count", "CountWith", "SumInts", "SumUInts", "SumFloats", "Average"}
  THEN 0 ELSE Nil

Init ==
  /\ op \in Operators
  /\ q \in Sources(op)
  /\ q2 \in IF op = "SequenceEqual" THEN BSeq(Plain, MaxLen) ELSE {<<>>}
  /\ predicate \in IF op \in WithPredicate THEN SUBSET Plain ELSE {{}}
  /\ value \in IF op = "Contains" THEN 0..NumVals ELSE {0}
  /\ keySelector \in IF op = "ToMapBy" THEN {"Key", "Value"} ELSE {"Key"}
  /\ valueSelector \in IF op = "ToMapBy" THEN {"Key", "Value"} ELSE {"Value"}
  /\ result \in Destinations(op)
  /\ result0 = result
  /\ pc = "call"
  /\ iterated = <<0, 0>>
  /\ next = NoCursor
  /\ next2 = NoCursor
  /\ r = ZeroResult(op)
  /\ found = FALSE
  /\ n = 0
  /\ index = 0
  /\ slice = IF op = "ToSlice" THEN result ELSE Nil
  /\ item = Nil
  /\ conv = "none"

\* next := q.Iterate() (and next2 := q2.Iterate())
Iterate ==
  /\ pc = "call"
  /\ iterated' = <<iterated[1] + 1, iterated[2] + (IF op = "SequenceEqual" THEN 1 ELSE 0)>>
  /\ pc' = IF op \in WithPrologue THEN "first" ELSE "loop"
  /\ UNCHANGED <<args, result, next, next2, r, locals>>

\* All without its early return: the failure is remembered and the scan goes on
AllNoEarlyExit ==
  /\ op = "All" /\ pc = "loop"
  /\ next' = Advance(next, q)
  /\ IF Ok
     THEN found' = (found \/ Cur \notin predicate) /\ UNCHANGED <<r, pc>>
     ELSE r' = ~found /\ pc' = "done" /\ UNCHANGED found
  /\ UNCHANGED <<args, result, iterated, next2, n, index, slice, item, conv>>

All ==
  /\ op = "All" /\ pc = "loop"
  /\ next' = Advance(next, q)
  /\ IF Ok
     THEN IF Cur \notin predicate
          THEN r' = FALSE /\ pc' = "done"
          ELSE UNCHANGED <<r, pc>>
     ELSE r' = TRUE /\ pc' = "done"
  /\ UNCHANGED <<args, result, iterated, next2, locals>>

\* _, ok := q.Iterate()(); return ok
Any ==
  /\ op = "Any" /\ pc = "loop"
  /\ next' = Advance(next, q)
  /\ r' = Ok
  /\ pc' = "done"
  /\ UNCHANGED <<args, result, iterated, next2, locals>>

AnyWith ==
  /\ op = "AnyWith" /\ pc = "loop"
  /\ next' = Advance(next, q)
  /\ IF Ok
     THEN IF Cur \in predicate
          THEN r' = TRUE /\ pc' = "done"
          ELSE UNCHANGED <<r, pc>>
     ELSE r' = FALSE /\ pc' = "done"
  /\ UNCHANGED <<args, result, iterated, next2, locals>>

Contains ==
  /\ op = "Contains" /\ pc = "loop"
  /\ next' = Advance(next, q)
  /\ IF Ok
     THEN IF Cur = value
          THEN r' = TRUE /\ pc' = "done"
          ELSE UNCHANGED <<r, pc>>
     ELSE r' = FALSE /\ pc' = "done"
  /\ UNCHANGED <<args, result, iterated, next2, locals>>

Count ==
  /\ op = "Count" /\ pc = "loop"
  /\ next' = Advance(next, q)
  /\ IF Ok
     THEN r' = r + 1 /\ UNCHANGED pc
     ELSE pc' = "done" /\ UNCHANGED r
  /\ UNCHANGED <<args, result, iterated, next2, locals>>

CountWith ==
  /\ op = "CountWith" /\ pc = "loop"
  /\ next' = Advance(next, q)
  /\ IF Ok
     THEN r' = (IF Cur \in predicate THEN r + 1 ELSE r) /\ UNCHANGED pc
     ELSE pc' = "done" /\ UNCHANGED r
  /\ UNCHANGED <<args, result, iterated, next2, locals>>

\* CountWith as a function of the sequence: the value the loop above returns
RECURSIVE CountWithResult(_, _)
CountWithResult(s, p) ==
  IF s = <<>> THEN 0
  ELSE CountWithResult(SubSeq(s, 1, Len(s) - 1), p) + (IF s[Len(s)] \in p THEN 1 ELSE 0)

\* item, _ := q.Iterate()(); return item
First ==
  /\ op = "First" /\ pc = "loop"
  /\ next' = Advance(next, q)
  /\ r' = IF Ok THEN Some(Cur) ELSE Nil
  /\ pc' = "done"
  /\ UNCHANGED <<args, result, iterated, next2, locals>>

FirstWith ==
  /\ op = "FirstWith" /\ pc = "loop"
  /\ next' = Advance(next, q)
  /\ IF Ok
     THEN IF Cur \in predicate
          THEN r' = Some(Cur) /\ pc' = "done"
          ELSE UNCHANGED <<r, pc>>
     ELSE r' = Nil /\ pc' = "done"
  /\ UNCHANGED <<args, result, iterated, next2, locals>>

Last ==
  /\ op = "Last" /\ pc = "loop"
  /\ next' = Advance(next, q)
  /\ IF Ok
     THEN r' = Some(Cur) /\ UNCHANGED pc
     ELSE pc' = "done" /\ UNCHANGED r
  /\ UNCHANGED <<args, result, iterated, next2, locals>>

LastWith ==
  /\ op = "LastWith" /\ pc = "loop"
  /\ next' = Advance(next, q)
  /\ IF Ok
     THEN r' = (IF Cur \in predicate THEN Some(Cur) ELSE r) /\ UNCHANGED pc
     ELSE pc' = "done" /\ UNCHANGED r
  /\ UNCHANGED <<args, result, iterated, next2, locals>>

\* r = append(r, item); a nil slice and an empty one are both <<>>
Results ==
  /\ op = "Results" /\ pc = "loop"
  /\ next' = Advance(next, q)
  /\ IF Ok
     THEN r' = Append(r, Cur) /\ UNCHANGED pc
     ELSE pc' = "done" /\ UNCHANGED r
  /\ UNCHANGED <<args, result, iterated, next2, locals>>

\* SequenceEqual without the trailing next2() check
SequenceEqualNoTail ==
  /\ op = "SequenceEqual" /\ pc = "loop"
  /\ next' = Advance(next, q)
  /\ next2' = IF Ok THEN Advance(next2, q2) ELSE next2
  /\ IF Ok
     THEN IF ~Ok2 \/ Cur # Cur2
          THEN r' = FALSE /\ pc' = "done"
          ELSE UNCHANGED <<r, pc>>
     ELSE r' = TRUE /\ pc' = "done"
  /\ UNCHANGED <<args, result, iterated, locals>>

\* one pass of the loop calls next() and, if it yielded, next2(); the pass
\* that finds q exhausted goes on to the trailing next2() call
SequenceEqual ==
  /\ op = "SequenceEqual" /\ pc = "loop"
  /\ next' = Advance(next, q)
  /\ next2' = Advance(next2, q2)
  /\ IF Ok
     THEN IF ~Ok2 \/ Cur # Cur2
          THEN r' = FALSE /\ pc' = "done"
          ELSE UNCHANGED <<r, pc>>
     ELSE r' = ~Ok2 /\ pc' = "done"
  /\ UNCHANGED <<args, result, iterated, locals>>

\* Single's first step without the return on an empty sequence
SingleFirstNoReturn ==
  /\ op = "Single" /\ pc = "first"
  /\ next' = Advance(next, q)
  /\ item' = IF Ok THEN Some(Cur) ELSE Nil
  /\ pc' = "loop"
  /\ UNCHANGED <<args, result, iterated, next2, r, found, n, index, slice, conv>>

\* item, ok := next(); if !ok { return nil }
SingleFirst ==
  /\ op = "Single" /\ pc = "first"
  /\ next' = Advance(next, q)
  /\ IF Ok
     THEN item' = Some(Cur) /\ pc' = "loop" /\ UNCHANGED r
     ELSE r' = Nil /\ pc' = "done" /\ UNCHANGED item
  /\ UNCHANGED <<args, result, iterated, next2, found, n, index, slice, conv>>

\* _, ok = next(); if ok { return nil }; return item
Single ==
  /\ op = "Single" /\ pc = "loop"
  /\ next' = Advance(next, q)
  /\ r' = IF Ok THEN Nil ELSE item
  /\ pc' = "done"
  /\ UNCHANGED <<args, result, iterated, next2, locals>>

\* SingleWith scanning on after the second match
SingleWithFullScan ==
  /\ op = "SingleWith" /\ pc = "loop"
  /\ next' = Advance(next, q)
  /\ IF Ok
     THEN IF Cur \in predicate
          THEN IF found
               THEN r' = Nil /\ n' = 2 /\ UNCHANGED <<pc, found>>
               ELSE found' = TRUE /\ r' = Some(Cur) /\ UNCHANGED <<pc, n>>
          ELSE UNCHANGED <<r, pc, found, n>>
     ELSE pc' = "done" /\ r' = (IF n = 2 THEN Nil ELSE r) /\ UNCHANGED <<found, n>>
  /\ UNCHANGED <<args, result, iterated, next2, index, slice, item, conv>>

SingleWith ==
  /\ op = "SingleWith" /\ pc = "loop"
  /\ next' = Advance(next, q)
  /\ IF Ok
     THEN IF Cur \in predicate
          THEN IF found
               THEN r' = Nil /\ pc' = "done" /\ UNCHANGED found
               ELSE found' = TRUE /\ r' = Some(Cur) /\ UNCHANGED pc
          ELSE UNCHANGED <<r, pc, found>>
     ELSE pc' = "done" /\ UNCHANGED <<r, found>>
  /\ UNCHANGED <<args, result, iterated, next2, n, index, slice, item, conv>>

\* ------------------------------------------------- numeric dispatch
\* item.(type)
TypeOf(x) == x[1]
\* getIntConverter / getUIntConverter / getFloatConverter: the converter chosen
\* from a sample, named by the family it widens to
getIntConverter(sample) == "int64"
getUIntConverter(sample) == "uint64"
getFloatConverter(sample) == "float64"
\* conv(item): the item's numeric value, widened
Convert(c, x) == x[2]
\* the switch of Average on the first item's type
AverageConverter(sample) ==
  IF TypeOf(sample) \in Signed THEN getIntConverter(sample)
  ELSE IF TypeOf(sample) \in Unsigned THEN getUIntConverter(sample)
  ELSE getFloatConverter(sample)
\* r / float64(n) as a fraction; math.NaN() is 0/0
Ratio(sum, count) == [num |-> sum, den |-> count]
NaN == Ratio(0, 0)

AverageFirst ==
  /\ op = "Average" /\ pc = "first"
  /\ next' = Advance(next, q)
  /\ IF Ok
     THEN /\ n' = 1
          /\ conv' = AverageConverter(Cur)
          /\ r' = Convert(AverageConverter(Cur), Cur)
          /\ pc' = "loop"
     ELSE r' = NaN /\ pc' = "done" /\ UNCHANGED <<n, conv>>
  /\ UNCHANGED <<args, result, iterated, next2, found, index, slice, item>>

Average ==
  /\ op = "Average" /\ pc = "loop"
  /\ next' = Advance(next, q)
  /\ IF Ok
     THEN r' = r + Convert(conv, Cur) /\ n' = n + 1 /\ UNCHANGED pc
     ELSE r' = Ratio(r, n) /\ pc' = "done" /\ UNCHANGED n
  /\ UNCHANGED <<args, result, iterated, next2, found, index, slice, item, conv>>

SumIntsFirst ==
  /\ op = "SumInts" /\ pc = "first"
  /\ next' = Advance(next, q)
  /\ IF Ok
     THEN /\ conv' = getIntConverter(Cur)
          /\ r' = Convert(getIntConverter(Cur), Cur)
          /\ pc' = "loop"
     ELSE r' = 0 /\ pc' = "done" /\ UNCHANGED conv
  /\ UNCHANGED <<args, result, iterated, next2, found, n, index, slice, item>>

\* SumInts assigning instead of accumulating
SumIntsAssign ==
  /\ op = "SumInts" /\ pc = "loop"
  /\ next' = Advance(next, q)
  /\ IF Ok
     THEN r' = Convert(conv, Cur) /\ UNCHANGED pc
     ELSE pc' = "done" /\ UNCHANGED r
  /\ UNCHANGED <<args, result, iterated, next2, locals>>

SumInts ==
  /\ op = "SumInts" /\ pc = "loop"
  /\ next' = Advance(next, q)
  /\ IF Ok
     THEN r' = r + Convert(conv, Cur) /\ UNCHANGED pc
     ELSE pc' = "done" /\ UNCHANGED r
  /\ UNCHANGED <<args, result, iterated, next2, locals>>

SumUIntsFirst ==
  /\ op = "SumUInts" /\ pc = "first"
  /\ next' = Advance(next, q)
  /\ IF Ok
     THEN /\ conv' = getUIntConverter(Cur)
          /\ r' = Convert(getUIntConverter(Cur), Cur)
          /\ pc' = "loop"
     ELSE r' = 0 /\ pc' = "done" /\ UNCHANGED conv
  /\ UNCHANGED <<args, result, iterated, next2, found, n, index, slice, item>>

SumUInts ==
  /\ op = "SumUInts" /\ pc = "loop"
  /\ next' = Advance(next, q)
  /\ IF Ok
     THEN r' = r + Convert(conv, Cur) /\ UNCHANGED pc
     ELSE pc' = "done" /\ UNCHANGED r
  /\ UNCHANGED <<args, result, iterated, next2, locals>>

SumFloatsFirst ==
  /\ op = "SumFloats" /\ pc = "first"
  /\ next' = Advance(next, q)
  /\ IF Ok
     THEN /\ conv' = getFloatConverter(Cur)
          /\ r' = Convert(getFloatConverter(Cur), Cur)
          /\ pc' = "loop"
     ELSE r' = 0 /\ pc' = "done" /\ UNCHANGED conv
  /\ UNCHANGED <<args, result, iterated, next2, found, n, index, slice, item>>

SumFloats ==
  /\ op = "SumFloats" /\ pc = "loop"
  /\ next' = Advance(next, q)
  /\ IF Ok
     THEN r' = r + Convert(conv, Cur) /\ UNCHANGED pc
     ELSE pc' = "done" /\ UNCHANGED r
  /\ UNCHANGED <<args, result, iterated, next2, locals>>

\* ---------------------------------------------------------- extrema
\* the comparer getComparer selects for an ordered type: by rank
compare(a, b) == IF a[1] > b[1] THEN 1 ELSE IF a[1] < b[1] THEN 0 - 1 ELSE 0

MaxFirst ==
  /\ op = "Max" /\ pc = "first"
  /\ next' = Advance(next, q)
  /\ IF Ok
     THEN r' = Some(Cur) /\ pc' = "loop"
     ELSE r' = Nil /\ pc' = "done"
  /\ UNCHANGED <<args, result, iterated, next2, locals>>

\* Max with >= in place of >: a later equal element replaces the best
MaxLastWins ==
  /\ op = "Max" /\ pc = "loop"
  /\ next' = Advance(next, q)
  /\ IF Ok
     THEN r' = (IF compare(Cur, r[1]) >= 0 THEN Some(Cur) ELSE r) /\ UNCHANGED pc
     ELSE pc' = "done" /\ UNCHANGED r
  /\ UNCHANGED <<args, result, iterated, next2, locals>>

Max ==
  /\ op = "Max" /\ pc = "loop"
  /\ next' = Advance(next, q)
  /\ IF Ok
     THEN r' = (IF compare(Cur, r[1]) > 0 THEN Some(Cur) ELSE r) /\ UNCHANGED pc
     ELSE pc' = "done" /\ UNCHANGED r
  /\ UNCHANGED <<args, result, iterated, next2, locals>>

MinFirst ==
  /\ op = "Min" /\ pc = "first"
  /\ next' = Advance(next, q)
  /\ IF Ok
     THEN r' = Some(Cur) /\ pc' = "loop"
     ELSE r' = Nil /\ pc' = "done"
  /\ UNCHANGED <<args, result, iterated, next2, locals>>

Min ==
  /\ op = "Min" /\ pc = "loop"
  /\ next' = Advance(next, q)
  /\ IF Ok
     THEN r' = (IF compare(Cur, r[1]) < 0 THEN Some(Cur) ELSE r) /\ UNCHANGED pc
     ELSE pc' = "done" /\ UNCHANGED r
  /\ UNCHANGED <<args, result, iterated, next2, locals>>

\* ---------------------------------------------------- materialization
\* ToChannel closing only after at least one send
ToChannelNoCloseOnEmpty ==
  /\ op = "ToChannel" /\ pc = "loop"
  /\ next' = Advance(next, q)
  /\ IF Ok
     THEN item' = Some(Cur) /\ pc' = "send" /\ UNCHANGED result
     ELSE /\ result' = IF next.pos = 0 THEN result ELSE [result EXCEPT !.closed = @ + 1]
          /\ pc' = "done" /\ UNCHANGED item
  /\ UNCHANGED <<args, iterated, next2, r, found, n, index, slice, conv>>

\* next(), then either leave the loop and close(result) or go on to the send
ToChannel ==
  /\ op = "ToChannel" /\ pc = "loop"
  /\ next' = Advance(next, q)
  /\ IF Ok
     THEN item' = Some(Cur) /\ pc' = "send" /\ UNCHANGED result
     ELSE result' = [result EXCEPT !.closed = @ + 1] /\ pc' = "done" /\ UNCHANGED item
  /\ UNCHANGED <<args, iterated, next2, r, found, n, index, slice, conv>>

\* result <- item, taken by the consumer
ToChannelSend ==
  /\ op = "ToChannel" /\ pc = "send"
  /\ result' = [result EXCEPT !.sent = Append(@, item[1])]
  /\ pc' = "loop"
  /\ UNCHANGED <<args, iterated, next, next2, r, locals>>

\* the selectors: ToMap passes i.(KeyValue).Key and i.(KeyValue).Value
Select(selector, x) == IF selector = "Key" THEN x[1] ELSE x[2]
\* an insert that keeps the entry already under the key
SetMapIndexKeep(m, key, val) ==
  [k \in DOMAIN m \cup {key} |-> IF k \in DOMAIN m THEN m[k] ELSE val]

\* m.SetMapIndex(key, value)
SetMapIndex(m, key, val) ==
  [k \in DOMAIN m \cup {key} |-> IF k = key THEN val ELSE m[k]]

\* ToMap is ToMapBy with the Key and Value selectors
ToMapBy ==
  /\ op \in {"ToMap", "ToMapBy"} /\ pc = "loop"
  /\ next' = Advance(next, q)
  /\ IF Ok
     THEN /\ result' = SetMapIndex(result, Select(keySelector, Cur),
                                   Select(valueSelector, Cur))
          /\ UNCHANGED pc
     ELSE pc' = "done" /\ UNCHANGED result
  /\ UNCHANGED <<args, iterated, next2, r, locals>>

RECURSIVE double(_, _)
\* for cap < newLen { cap *= 2 }
double(cap, newLen) == IF cap < newLen THEN double(cap * 2, newLen) ELSE cap

\* grow allocating exactly the length asked for
growExact(s, extra) ==
  LET len == s.len
      newLen == len + extra
  IN IF newLen <= Cap(s)
     THEN [s EXCEPT !.len = newLen]
     ELSE [base |-> s.base + 1,
           arr |-> [i \in 1..newLen |-> IF i <= len THEN s.arr[i] ELSE 0],
           len |-> newLen]

\* grow without the reflect.Copy
growNoCopy(s, extra) ==
  LET len == s.len
      newLen == len + extra
      cap == Cap(s)
  IN IF newLen <= cap
     THEN [s EXCEPT !.len = newLen]
     ELSE LET newCap == IF cap = 0 THEN extra ELSE double(cap, newLen)
          IN [base |-> s.base + 1, arr |-> [i \in 1..newCap |-> 0], len |-> newLen]

grow(s, extra) ==
  LET len == s.len
      newLen == len + extra
      cap == Cap(s)
  IN IF newLen <= cap
     THEN [s EXCEPT !.len = newLen]
     ELSE LET newCap == IF cap = 0 THEN extra ELSE double(cap, newLen)
          IN [base |-> s.base + 1,
              arr |-> [i \in 1..newCap |-> IF i <= len THEN s.arr[i] ELSE 0],
              len |-> newLen]

\* slice.Index(index).Set(item); the caller's slice shares the backing array
\* until the first reallocation
ToSlice ==
  /\ op = "ToSlice" /\ pc = "loop"
  /\ next' = Advance(next, q)
  /\ IF Ok
     THEN LET s == IF index >= slice.len THEN grow(slice, 1) ELSE slice
              w == [s EXCEPT !.arr[index + 1] = Cur]
          IN /\ slice' = w
             /\ result' = IF w.base = result.base
                          THEN [result EXCEPT !.arr = w.arr] ELSE result
             /\ index' = index + 1
             /\ UNCHANGED pc
     ELSE /\ result' = [slice EXCEPT !.len = index]
          /\ pc' = "done"
          /\ UNCHANGED <<slice, index>>
  /\ UNCHANGED <<args, iterated, next2, r, found, n, item, conv>>

Next ==
  \/ AverageFirst \/ Average \/ SumIntsFirst \/ SumInts \/ SumUIntsFirst
  \/ SumUInts \/ SumFloatsFirst \/ SumFloats \/ MaxFirst \/ Max \/ MinFirst
  \/ Min \/ ToChannel \/ ToChannelSend \/ ToMapBy \/ ToSlice
  \/ Any \/ AnyWith \/ Contains \/ Count \/ CountWith \/ First \/ FirstWith
  \/ Last \/ LastWith \/ Results \/ SequenceEqual \/ SingleFirst \/ Single
  \/ SingleWith
  \/ Iterate
  \/ All

Spec == Init /\ [][Next]_vars

\* ------------------------------------------------------------ properties
IsPrefix(s, t) == Len(s) <= Len(t) /\ \A i \in 1..Len(s) : s[i] = t[i]
SameSequence(s, t) == Len(s) = Len(t) /\ \A i \in 1..Len(s) : s[i] = t[i]
Least(I) == CHOOSE i \in I : \A j \in I : i <= j
Greatest(I) == CHOOSE i \in I : \A j \in I : j <= i

\* C1: ToChannel sends the N source elements in source order and then closes
\* the channel exactly once: what was sent is always a prefix of the source,
\* the channel is closed at most once, only after all N values were sent, and
\* it is closed when the call returns (with N = 0: no send, one close).
ToChannelSendsAllThenCloses ==
  op = "ToChannel" =>
    /\ result.closed <= 1
    /\ IsPrefix(result.sent, q)
    /\ (result.closed = 1 => SameSequence(result.sent, q))
    /\ (pc = "done" => result.closed = 1)

ToChannelSentAndClosed ==
  /\ op = "ToChannel" /\ pc = "done" /\ Len(q) >= 2
  /\ Len(result.sent) = Len(q) /\ result.closed = 1

\* C2: when ToSlice returns, the destination has length N and holds the i-th
\* source element at index i, whatever its initial length and capacity were.
ToSliceExactLength ==
  (op = "ToSlice" /\ pc = "done") =>
    /\ result.len = Len(q)
    /\ result.len <= Cap(result)
    /\ \A i \in 1..Len(q) : result.arr[i] = q[i]

\* spare capacity used first, then a reallocation: 0 < L < C < N
ToSliceReallocated ==
  /\ op = "ToSlice" /\ pc = "done"
  /\ 0 < result0.len /\ result0.len < Cap(result0) /\ Cap(result0) < Len(q)

\* the indices of the source elements whose key is k
KeyIndices(k) == {i \in 1..Len(q) : Select(keySelector, q[i]) = k}

\* C3: when ToMapBy returns, every key some element produces holds the value
\* of the last element producing it, and every other key is as it was in the
\* map passed in (present with the same value, or absent).
ToMapByLastWriteWins ==
  (op \in {"ToMap", "ToMapBy"} /\ pc = "done") =>
    /\ DOMAIN result \subseteq Plain
    /\ \A k \in Plain :
         IF KeyIndices(k) # {}
         THEN /\ k \in DOMAIN result
              /\ result[k] = Select(valueSelector, q[Greatest(KeyIndices(k))])
         ELSE /\ (k \in DOMAIN result) = (k \in DOMAIN result0)
              /\ k \in DOMAIN result0 => result[k] = result0[k]

\* two elements under one key with different values, and an untouched old entry
ToMapByDuplicateKey ==
  /\ op = "ToMapBy" /\ pc = "done" /\ Len(q) = 2
  /\ Select(keySelector, q[1]) = Select(keySelector, q[2])
  /\ Select(valueSelector, q[1]) # Select(valueSelector, q[2])
  /\ \E k \in DOMAIN result0 : KeyIndices(k) = {}

\* C4: SequenceEqual returns true exactly when the two sequences have the same
\* length and the same element at every position.
SequenceEqualIffSame ==
  (op = "SequenceEqual" /\ pc = "done") => (r = SameSequence(q, q2))

\* q is a non-empty strict prefix of q2
SequenceEqualStrictPrefix ==
  /\ op = "SequenceEqual" /\ pc = "done"
  /\ Len(q) >= 1 /\ Len(q) < Len(q2) /\ IsPrefix(q, q2)
  /\ r = FALSE

\* the first index of s holding a greatest (sign = 1) or least (sign = -1) element
FirstBest(s, sign) ==
  CHOOSE i \in 1..Len(s) :
    /\ \A j \in 1..Len(s) : compare(s[j], s[i]) * sign <= 0
    /\ \A j \in 1..(i - 1) : compare(s[j], s[i]) * sign < 0

\* C5: Max (Min) returns nil on an empty sequence and otherwise the first
\* element, in source order, among the greatest (least) ones.
MaxMinFirstWins ==
  /\ (op = "Max" /\ pc = "done") =>
       r = (IF q = <<>> THEN Nil ELSE Some(q[FirstBest(q, 1)]))
  /\ (op = "Min" /\ pc = "done") =>
       r = (IF q = <<>> THEN Nil ELSE Some(q[FirstBest(q, 0 - 1)]))

\* the greatest rank occurs twice, in different elements, after a smaller one
MaxTie ==
  /\ op = "Max" /\ pc = "done" /\ Len(q) = 3
  /\ compare(q[1], q[2]) < 0 /\ compare(q[2], q[3]) = 0 /\ q[2] # q[3]
  /\ r = Some(q[2])

RECURSIVE SumOf(_)
SumOf(s) == IF s = <<>> THEN 0 ELSE s[1][2] + SumOf(Tail(s))

Deciding ==
  CASE op = "All" -> Plain \ predicate
    [] op \in {"AnyWith", "FirstWith"} -> predicate
    [] op = "Contains" -> {value}
    [] OTHER -> {}
\* the next() call that returns the deciding element: k + 1 for index k
\* (counted from 0), or the call that reports exhaustion when none decides
DecidingCall ==
  LET I == {i \in 1..Len(q) : q[i] \in Deciding}
  IN IF I = {} THEN Len(q) + 1 ELSE Least(I)

\* C7: All, AnyWith, FirstWith and Contains never call next() after the call
\* that returned the deciding element and have made exactly that many calls
\* when they return; Any and First call next() exactly once; Any returns what
\* CountWith with an always-true predicate being positive would.
ShortCircuit ==
  /\ op \in {"All", "AnyWith", "FirstWith", "Contains"} =>
       /\ next.calls <= DecidingCall
       /\ pc = "done" => next.calls = DecidingCall
  /\ op \in {"Any", "First"} =>
       /\ next.calls <= 1
       /\ pc = "done" => next.calls = 1
  /\ (op = "Any" /\ pc = "done") => (r = (CountWithResult(q, Plain) > 0))

\* All decided by the second of three elements
AllStopsAtFailure ==
  /\ op = "All" /\ pc = "done" /\ Len(q) = 3
  /\ DecidingCall = 2 /\ next.calls = 2 /\ r = FALSE

\* the indices of the source elements satisfying the predicate
Matches == {i \in 1..Len(q) : q[i] \in predicate}

\* C8 as stated: SingleWith returns only after the cursor reported exhaustion.
SingleWithScansToExhaustion ==
  (op = "SingleWith" /\ pc = "done") => next.eos = 1

\* C8 amended: SingleWith returns nil at the second matching element, without
\* calling next() again; with at most one match it calls next() until the
\* cursor reports exhaustion and returns the match, or nil if there is none.
SingleWithExitsAtSecondMatch ==
  (op = "SingleWith" /\ pc = "done") =>
    IF Cardinality(Matches) >= 2
    THEN /\ next.calls = Least(Matches \ {Least(Matches)})
         /\ next.eos = 0
         /\ r = Nil
    ELSE /\ next.calls = Len(q) + 1
         /\ next.eos = 1
         /\ r = (IF Matches = {} THEN Nil ELSE Some(q[Least(Matches)]))

\* two matches followed by an element that is never pulled
SingleWithAmbiguous ==
  /\ op = "SingleWith" /\ pc = "done" /\ Len(q) = 3
  /\ {1, 2} \subseteq Matches /\ next.calls = 2 /\ r = Nil

\* the least power of two that is at least k; 0 for k = 0
Pow2Ceil(k) == IF k = 0 THEN 0 ELSE double(1, k)

\* C9: in every step of ToSlice the capacity does not decrease; the backing
\* array is replaced only when the write index and the length have reached the
\* capacity, and then the capacity at least doubles; from capacity 0 the
\* capacity after k writes is the least power of two >= k (1, 2, 4, 8, ...).
ToSliceGrowth ==
  [][op = "ToSlice" =>
       /\ Cap(slice') >= Cap(slice)
       /\ slice'.base # slice.base =>
            /\ index = Cap(slice)
            /\ slice.len = Cap(slice)
            /\ Cap(slice') > Cap(slice)
            /\ Cap(slice') >= 2 * Cap(slice)
       /\ slice'.base = slice.base => Cap(slice') = Cap(slice)
       /\ Cap(result0) = 0 => Cap(slice') = Pow2Ceil(index')]_vars

\* from capacity 0 to capacity 8, through four reallocations
ToSliceDoubledToEight ==
  /\ op = "ToSlice" /\ Cap(result0) = 0
  /\ Cap(slice) = 8 /\ slice.base = 4 /\ index = 5

\* C10: each Query is iterated exactly once (q2 only by SequenceEqual), no
\* cursor is pulled before it is obtained, and no cursor returns ok=false
\* twice, i.e. next() is never called on an exhausted cursor.
OneCursorExhaustedOnce ==
  /\ iterated[1] = (IF pc = "call" THEN 0 ELSE 1)
  /\ iterated[2] = (IF pc # "call" /\ op = "SequenceEqual" THEN 1 ELSE 0)
  /\ pc = "call" => next.calls = 0 /\ next2.calls = 0
  /\ op # "SequenceEqual" => next2.calls = 0
  /\ next.eos <= 1
  /\ next2.eos <= 1

\* SequenceEqual's trailing next2() call finds q2 exhausted, after q
SequenceEqualBothExhausted ==
  /\ op = "SequenceEqual" /\ pc = "done" /\ Len(q) >= 1
  /\ next.eos = 1 /\ next2.eos = 1 /\ r = TRUE
====
